---- MODULE Spec2Model ----
(***************************************************************************)
(* Model of the emergency-monitoring notebook                              *)
(* (src/ai-emergency-responce-code-.ipynb): the Cell 6 monitor loop with   *)
(* the functions it calls (RiskEvaluation, check_camera_flags,             *)
(* generate_alert_message, send_telegram).                                 *)
(*                                                                         *)
(* Numbers are fixed point: heart_rate, oxygen_saturation and glucose are  *)
(* in hundredths (8262 is 82.62), risk_score in ten-thousandths (-32 is    *)
(* -0.0032).  Time is in whole seconds.  Strings are TLA+ strings; the     *)
(* non-ASCII glyphs of the alert template are left out.                    *)
(***************************************************************************)
EXTENDS Integers, Sequences, FiniteSets, TLC

(* ---------------------------- bounds ---------------------------------- *)
MaxLen == 2
Stall == 61
MaxClock == 66

(* ------------------------ program constants --------------------------- *)
DefaultMaxDuration == 60
CameraDuration == 5
diff_threshold == 10

VARIABLES
    data,             \* the scored stream: rows of the DataFrame, in order
    alert_message,    \* the column data['alert_message'], one entry per row
    max_duration,     \* the loop's time budget
    start_time,       \* start_time of Cell 6
    now,              \* the wall clock, what time.time() returns
    idx,              \* number of rows the for statement has fetched
    pc,               \* position of control
    risk_flag,        \* local of Cell 6
    decision_flag,    \* local of Cell 6
    msg,              \* local of Cell 6
    cap,              \* the cv2.VideoCapture of check_camera_flags
    raised,           \* the exception that left Cell 6, "none" if none did
    cam_start,        \* local 'start' of check_camera_flags
    motion_detected,  \* local of check_camera_flags
    face_detected,    \* local of check_camera_flags
    camera_sample,    \* (motion_flag, face_flag) as returned to Cell 6
    camCalls,         \* per row: calls of check_camera_flags
    smsCalls,         \* per row: calls of send_sms
    decisions,        \* the ordered decision log: one entry per write of alert_message
    window            \* what the frames of the current sampling window showed

vars == <<data, alert_message, max_duration, start_time, now, idx, pc,
          risk_flag, decision_flag, msg, cap, raised, cam_start, motion_detected,
          face_detected, camera_sample, camCalls, smsCalls, decisions, window>>

(* ------------------------------ rows ---------------------------------- *)
Row(hr, o2, glu, label, score) ==
    [heart_rate |-> hr, oxygen_saturation |-> o2, glucose |-> glu,
     risk_label |-> label, risk_score |-> score]

\* Representative rows: plain normal, normal exactly on both thresholds,
\* heart rate just above 120, oxygen just below 85, and row 9 of the
\* recorded run, inside both thresholds and labelled -1 by the IsolationForest.
Rows ==
    { Row(7500, 9700, 10000, 1, 500),
      Row(12000, 8500, 10000, 1, 12),
      Row(12001, 9700, 10000, 1, 4),
      Row(7500, 8499, 10000, 1, 4),
      Row(7771, 9999, 11750, -1, -79) }

RECURSIVE SeqsUpTo(_, _)
SeqsUpTo(S, n) ==
    IF n = 0 THEN { <<>> }
    ELSE LET shorter == SeqsUpTo(S, n - 1)
         IN  shorter \cup { Append(s, x) : s \in { t \in shorter : Len(t) = n - 1 }, x \in S }

MaxDurations == {0, DefaultMaxDuration}
\* Seconds a step takes.  Reading and examining a frame inside the window
\* takes any of Delays; the other blocking calls (opening the device, the
\* first read, the HTTPS request) return at once or stall, CallDelays; the
\* plain statements of Cell 6 between the end of one row and the next
\* deadline check take ShortDelays.
Delays == {0, 1, Stall}
CallDelays == {0, Stall}
ShortDelays == {0, 1}

(* --------------------------- pure functions --------------------------- *)
\* the thresholds taken inclusively
DeathEvaluateEmergencyRow_Inclusive(row) ==
    (row.heart_rate >= 120 * 100) \/ (row.oxygen_saturation <= 85 * 100)

\* both thresholds required
DeathEvaluateEmergencyRow_Both(row) ==
    (row.heart_rate > 120 * 100) /\ (row.oxygen_saturation < 85 * 100)

DeathEvaluateEmergencyRow(row) ==
    (row.heart_rate > 120 * 100) \/ (row.oxygen_saturation < 85 * 100)

RiskEvaluation(row) ==
    (row.risk_label = -1) \/ DeathEvaluateEmergencyRow(row)

CorrectedBasedCameraResult(motion_flag, face_flag, risk) ==
    risk /\ motion_flag /\ ~face_flag

\* the decision gated by the camera, as CorrectedBasedCameraResult would
DecisionFlag_CameraGated(motion_flag, face_flag, risk) ==
    CorrectedBasedCameraResult(motion_flag, face_flag, risk)

\* line 348: decision_flag = True, whatever the camera returned
DecisionFlag(motion_flag, face_flag, risk) == TRUE

\* the flag inverted
FinalDecisionLogic_Negated(flag) == ~flag

FinalDecisionLogic(flag) == flag

Abs(x) == IF x < 0 THEN -x ELSE x

\* x / unit rounded to the nearest integer, ties to even (x >= 0)
RoundHalfEven(x, unit) ==
    LET q == x \div unit
        r == x % unit
    IN  IF 2 * r > unit THEN q + 1
        ELSE IF 2 * r < unit THEN q
        ELSE IF q % 2 = 0 THEN q ELSE q + 1

Pad3(n) ==
    IF n < 10 THEN "00" \o ToString(n)
    ELSE IF n < 100 THEN "0" \o ToString(n)
    ELSE ToString(n)

\* format(x, '.1f') of a value held in hundredths
Fmt1(x) ==
    LET t == RoundHalfEven(Abs(x), 10)
    IN  (IF x < 0 THEN "-" ELSE "") \o ToString(t \div 10) \o "." \o ToString(t % 10)

\* format(x, '.3f') of a value held in ten-thousandths
Fmt3(x) ==
    LET t == RoundHalfEven(Abs(x), 10)
    IN  (IF x < 0 THEN "-" ELSE "") \o ToString(t \div 1000) \o "." \o Pad3(t % 1000)

generate_alert_message(row) ==
    "Emergency Alert! Measurements:\n"
    \o "- Heart Rate: " \o Fmt1(row.heart_rate) \o " bpm\n"
    \o "- O2 Saturation: " \o Fmt1(row.oxygen_saturation) \o "%\n"
    \o "- Glucose: " \o Fmt1(row.glucose) \o " mg/dL\n"
    \o "Risk Score: " \o Fmt3(row.risk_score) \o "\n"
    \o "Please check immediately!"

InitialMessage == ""
NoAlertNeeded == "No alert needed"

Absent == [present |-> FALSE, motion_detected |-> FALSE, face_detected |-> FALSE]
Sample(m, f) == [present |-> TRUE, motion_detected |-> m, face_detected |-> f]

Decision(i, risk, sample, flag, text) ==
    [reading_ref |-> i, risk_flag |-> risk, camera_sample |-> sample,
     decision_flag |-> flag, alert_message |-> text]

Elapsed(t) == t - start_time

\* the comparison taken inclusively
DeadlineExceeded_Inclusive(t) == Elapsed(t) >= max_duration

\* a grace period of one sampling window added to the budget
DeadlineExceeded_Grace(t) == Elapsed(t) > max_duration + CameraDuration

\* line 333: time.time() - start_time > max_duration
DeadlineExceeded(t) == Elapsed(t) > max_duration

\* lines 143-148: check_camera_flags has examined no frame yet
NoFrames == [sampled |-> FALSE, max_diff |-> 0, max_regions |-> 0]

(* ------------------------------- Init --------------------------------- *)
Init ==
    /\ data \in SeqsUpTo(Rows, MaxLen)
    /\ alert_message = [i \in 1..Len(data) |-> InitialMessage]
    /\ max_duration \in MaxDurations
    /\ start_time = 0
    /\ now = 0
    /\ idx = 0
    /\ pc = "loop"
    /\ risk_flag = FALSE
    /\ decision_flag = FALSE
    /\ msg = ""
    /\ cap = "none"
    /\ raised = "none"
    /\ cam_start = 0
    /\ motion_detected = FALSE
    /\ face_detected = FALSE
    /\ camera_sample = Absent
    /\ camCalls = [i \in 1..Len(data) |-> 0]
    /\ smsCalls = [i \in 1..Len(data) |-> 0]
    /\ decisions = <<>>
    /\ window = NoFrames

(* --------------------------- Cell 6: the loop ------------------------- *)
Tick(d) == now + d

\* a step may take d: the short durations always, a stall only while the
\* clock stays within MaxClock
Takes(d) == d < Stall \/ Tick(d) <= MaxClock

\* data.at[idx, 'alert_message'] = text for row i, with the Decision it records
Record(i, risk, sample, flag, text) ==
    /\ alert_message' = [alert_message EXCEPT ![i] = text]
    /\ decisions' = Append(decisions, Decision(i, risk, sample, flag, text))

\* the for statement ends one row early
StreamExhausted_Early ==
    /\ pc = "loop"
    /\ idx >= Len(data) - 1
    /\ pc' = "Completed"
    /\ UNCHANGED <<window, raised, data, alert_message, max_duration, start_time, now,
                   idx, risk_flag, decision_flag, msg, cap, cam_start, motion_detected,
                   face_detected, camera_sample, camCalls, smsCalls, decisions>>

\* line 332: data.iterrows() is exhausted, the for statement ends
StreamExhausted ==
    /\ pc = "loop"
    /\ idx = Len(data)
    /\ pc' = "Completed"
    /\ UNCHANGED <<window, raised, data, alert_message, max_duration, start_time, now, idx,
                   risk_flag, decision_flag, msg, cap, cam_start, motion_detected,
                   face_detected, camera_sample, camCalls, smsCalls,
                   decisions>>

\* the break that also marks every row left as not needing an alert
DeadlineBreak_DefaultNormal ==
    /\ pc = "loop"
    /\ idx < Len(data)
    /\ \E d \in ShortDelays :
        /\ Takes(d)
        /\ Elapsed(Tick(d)) > max_duration
        /\ now' = Tick(d)
    /\ idx' = idx + 1
    /\ alert_message' = [i \in 1..Len(data) |->
                            IF i >= idx' THEN NoAlertNeeded ELSE alert_message[i]]
    /\ pc' = "TimedOut"
    /\ UNCHANGED <<window, raised, data, max_duration, start_time, risk_flag,
                   decision_flag, msg, cap, cam_start, motion_detected,
                   face_detected, camera_sample, camCalls, smsCalls, decisions>>

\* lines 332-335: the next row is fetched, the deadline check fails, break
DeadlineBreak ==
    /\ pc = "loop"
    /\ idx < Len(data)
    /\ \E d \in ShortDelays :
        /\ Takes(d)
        /\ DeadlineExceeded(Tick(d))
        /\ now' = Tick(d)
    /\ idx' = idx + 1
    /\ pc' = "TimedOut"
    /\ UNCHANGED <<window, raised, data, alert_message, max_duration, start_time, risk_flag,
                   decision_flag, msg, cap, cam_start, motion_detected,
                   face_detected, camera_sample, camCalls, smsCalls, decisions>>

\* lines 332-337: the next row is fetched, passes the deadline check, and
\* RiskEvaluation sets risk_flag
DeadlinePass ==
    /\ pc = "loop"
    /\ idx < Len(data)
    /\ \E d \in ShortDelays :
        /\ Takes(d)
        /\ ~DeadlineExceeded(Tick(d))
        /\ now' = Tick(d)
    /\ idx' = idx + 1
    /\ risk_flag' = RiskEvaluation(data[idx'])
    /\ pc' = "evaluated"
    /\ UNCHANGED <<window, raised, data, alert_message, max_duration, start_time, decision_flag,
                   msg, cap, cam_start, motion_detected, face_detected,
                   camera_sample, camCalls, smsCalls, decisions>>

\* the continue taken before the message is written
NoRiskRow_NoRecord ==
    /\ pc = "evaluated"
    /\ ~risk_flag
    /\ pc' = "loop"
    /\ UNCHANGED <<window, raised, data, alert_message, decisions, max_duration,
                   start_time, now, idx, risk_flag, decision_flag, msg, cap,
                   cam_start, motion_detected, face_detected, camera_sample,
                   camCalls, smsCalls>>

\* lines 338-341: the row is not at risk: no alert is recorded, continue
NoRiskRow ==
    /\ pc = "evaluated"
    /\ ~risk_flag
    /\ Record(idx, risk_flag, Absent, FALSE, NoAlertNeeded)
    /\ pc' = "loop"
    /\ UNCHANGED <<window, raised, data, max_duration, start_time, now, idx, risk_flag,
                   decision_flag, msg, cap, cam_start, motion_detected,
                   face_detected, camera_sample, camCalls, smsCalls>>

\* lines 338, 343 and 135-145: the row is at risk and check_camera_flags
\* is entered: the capture is constructed (the device opens or does not),
\* start is read, both flags start False
RiskRow ==
    /\ pc = "evaluated"
    /\ risk_flag
    /\ \E d \in CallDelays :
        /\ Takes(d)
        /\ now' = Tick(d)
        /\ cam_start' = Tick(d)
    /\ camCalls' = [camCalls EXCEPT ![idx] = @ + 1]
    /\ \E opened \in BOOLEAN : cap' = IF opened THEN "open" ELSE "unopened"
    /\ motion_detected' = FALSE
    /\ face_detected' = FALSE
    /\ window' = NoFrames
    /\ pc' = "cam_first_read"
    /\ UNCHANGED <<raised, data, alert_message, max_duration, start_time, idx, risk_flag,
                   decision_flag, msg, camera_sample, smsCalls, decisions>>

(* ------------------------- check_camera_flags ------------------------- *)
\* A frame as the sampler sees it: the mean absolute difference to the
\* previous frame, on the threshold or just above it, and the number of
\* regions each cascade reports; the profile cascade is not run once the
\* frontal one has reported a region (the break of line 158).
Frames ==
    { f \in [diff : {diff_threshold, diff_threshold + 1}, frontal : {0, 1}, profile : {0, 1}] :
        f.frontal + f.profile <= 1 }

\* line 153
MotionIn(frame) == frame.diff > diff_threshold

\* lines 155-158: any cascade reports at least one region
FaceIn(frame) == frame.frontal > 0 \/ frame.profile > 0

\* the flag follows the latest frame
Sticky_Overwrite(flag, hit) == hit

\* lines 153-154 and 156-157: the flag is only ever assigned True, and only
\* under the frame's condition
Sticky(flag, hit) == IF hit THEN TRUE ELSE flag

\* lines 150-159, one pass of the while body: the frame is one more frame
\* the window has examined
Observed(w, frame) ==
    LET regions == IF frame.frontal > frame.profile THEN frame.frontal ELSE frame.profile
    IN  [sampled |-> TRUE,
         max_diff |-> IF frame.diff > w.max_diff THEN frame.diff ELSE w.max_diff,
         max_regions |-> IF regions > w.max_regions THEN regions ELSE w.max_regions]

\* line 150: time.time() - start < duration
WindowOpen(t) == t - cam_start < CameraDuration

\* An exception leaves check_camera_flags and Cell 6: nothing catches it,
\* cap.release() is not reached.  Whether the handle is still held then
\* depends on the runtime: an interactive kernel keeps the frame (and cap)
\* alive through the stored traceback, a script ends and the handle goes.
\* The function's other locals are gone with its frame (they are put back
\* to their initial values), and nothing reads the clock any more.
Abort(exception) ==
    /\ pc' = "Aborted"
    /\ raised' = exception
    /\ cap' \in (IF cap = "open" THEN {"open", "released"} ELSE {cap})
    /\ cam_start' = 0
    /\ motion_detected' = FALSE
    /\ face_detected' = FALSE
    /\ window' = NoFrames
    /\ UNCHANGED now

\* lines 147-148: the first frame is read and converted
CamFirstRead ==
    /\ pc = "cam_first_read"
    /\ cap = "open"
    /\ \E d \in CallDelays : Takes(d) /\ now' = Tick(d)
    /\ pc' = "cam_window"
    /\ UNCHANGED <<window, raised, data, alert_message, max_duration, start_time, idx, risk_flag,
                   decision_flag, msg, cap, cam_start, motion_detected,
                   face_detected, camera_sample, camCalls, smsCalls,
                   decisions>>

\* lines 147-148: the device did not open, or the read fails: cap.read()
\* returns (False, None) and cv2.cvtColor(None, ...) raises
CamFirstReadFails ==
    /\ pc = "cam_first_read"
    /\ Abort("cv2.error in first read")
    /\ UNCHANGED <<data, alert_message, max_duration, start_time, idx, risk_flag,
                   decision_flag, msg, camera_sample, camCalls, smsCalls, decisions>>

\* lines 150-159: the window is still open when the clock is read; one frame
\* is read and examined, which takes d
CamFrame ==
    /\ pc = "cam_window"
    /\ WindowOpen(now)
    /\ \E d \in Delays : Takes(d) /\ now' = Tick(d)
    /\ \E frame \in Frames :
        /\ motion_detected' = Sticky(motion_detected, MotionIn(frame))
        /\ face_detected' = Sticky(face_detected, FaceIn(frame))
        /\ window' = Observed(window, frame)
    /\ UNCHANGED <<raised, data, alert_message, max_duration, start_time, idx, pc,
                   risk_flag, decision_flag, msg, cap, cam_start, camera_sample,
                   camCalls, smsCalls, decisions>>

\* lines 150-152: the window is still open and the read fails: cvtColor raises
CamFrameFails ==
    /\ pc = "cam_window"
    /\ WindowOpen(now)
    /\ Abort("cv2.error in window")
    /\ UNCHANGED <<data, alert_message, max_duration, start_time, idx, risk_flag,
                   decision_flag, msg, camera_sample, camCalls, smsCalls, decisions>>

\* lines 150, 161-164 and 344-358: the window has closed; the capture is
\* released, the pair is returned (the function's locals are gone: they are
\* put back to their initial values), Cell 6 sets decision_flag and either
\* composes the message (send_sms is next) or records no alert
CamReturn ==
    /\ pc = "cam_window"
    /\ ~WindowOpen(now)
    /\ cap' = "released"
    /\ camera_sample' = Sample(motion_detected, face_detected)
    /\ decision_flag' = DecisionFlag(motion_detected, face_detected, risk_flag)
    /\ IF FinalDecisionLogic(decision_flag')
       THEN /\ msg' = generate_alert_message(data[idx])
            /\ pc' = "send_sms"
            /\ UNCHANGED <<alert_message, decisions>>
       ELSE /\ Record(idx, risk_flag, camera_sample', decision_flag', NoAlertNeeded)
            /\ pc' = "loop"
            /\ UNCHANGED msg
    /\ cam_start' = 0
    /\ motion_detected' = FALSE
    /\ face_detected' = FALSE
    /\ window' = NoFrames
    /\ UNCHANGED <<now, raised, data, max_duration, start_time, idx, risk_flag,
                   camCalls, smsCalls>>

(* ---------------------------- send_telegram --------------------------- *)
\* The HTTP status of the reply, when there is one
Statuses == {200, 500}

\* the notifier is skipped when the message repeats that of the row before
SendSms_Dedup ==
    /\ pc = "send_sms"
    /\ \E d \in CallDelays : Takes(d) /\ now' = Tick(d)
    /\ smsCalls' = IF idx > 1 /\ alert_message[idx - 1] = msg
                   THEN smsCalls
                   ELSE [smsCalls EXCEPT ![idx] = @ + 1]
    /\ Record(idx, risk_flag, camera_sample, decision_flag, msg)
    /\ pc' = "loop"
    /\ UNCHANGED <<window, raised, data, max_duration, start_time, idx, risk_flag,
                   decision_flag, msg, cap, cam_start, motion_detected, face_detected,
                   camera_sample, camCalls>>

\* lines 354-355 and 97-112: the request gets a reply (status 200 or not,
\* either is only printed), send_sms returns and the message is recorded
SendSms ==
    /\ pc = "send_sms"
    /\ \E d \in CallDelays : Takes(d) /\ now' = Tick(d)
    /\ \E status \in Statuses : TRUE
    /\ smsCalls' = [smsCalls EXCEPT ![idx] = @ + 1]
    /\ Record(idx, risk_flag, camera_sample, decision_flag, msg)
    /\ pc' = "loop"
    /\ UNCHANGED <<window, raised, data, max_duration, start_time, idx, risk_flag, decision_flag,
                   msg, cap, cam_start, motion_detected, face_detected,
                   camera_sample, camCalls>>

\* lines 354 and 98-107: the connection or the request raises (no network,
\* name resolution, TLS): the exception leaves send_telegram and Cell 6
SendSmsRaises ==
    /\ pc = "send_sms"
    /\ smsCalls' = [smsCalls EXCEPT ![idx] = @ + 1]
    /\ pc' = "Aborted"
    /\ raised' = "OSError in send_telegram"
    /\ UNCHANGED <<window, now, data, alert_message, max_duration, start_time, idx,
                   risk_flag, decision_flag, msg, cap, cam_start, motion_detected,
                   face_detected, camera_sample, camCalls, decisions>>

(* --------------------------- specification ---------------------------- *)
Next ==
    \/ StreamExhausted
    \/ DeadlineBreak
    \/ DeadlinePass
    \/ NoRiskRow
    \/ RiskRow
    \/ CamFirstRead
    \/ CamFirstReadFails
    \/ CamFrame
    \/ CamFrameFails
    \/ CamReturn
    \/ SendSms
    \/ SendSmsRaises

Spec == Init /\ [][Next]_vars

\* The notebook is one sequential thread: the statement it is at is
\* executed, and a call that returns does so after finitely many steps.
\* Inside the sampling window a frame that takes no time and changes no
\* flag leaves the state as it is, so a step of Next there moves the clock
\* or sets a flag: cap.read() waits for the device's next frame (lines
\* 150-151), the frames of one window cannot all take no time.
FairSpec == Spec /\ WF_vars(Next)

(* ------------------------------ claims -------------------------------- *)
RowIds == 1..Len(data)

\* row i has passed its deadline check and the loop is done with it, or is
\* past the point where a row not at risk is recorded
Processed(i) ==
    \/ i < idx
    \/ i = idx /\ pc \notin {"evaluated", "TimedOut"}

DecisionsOf(i) == { k \in 1..Len(decisions) : decisions[k].reading_ref = i }

\* the reading is normal in the words of the claims
NormalReading(row) ==
    /\ row.risk_label = 1
    /\ row.heart_rate <= 12000
    /\ row.oxygen_saturation >= 8500

AtRiskReading(row) ==
    \/ row.risk_label = -1
    \/ row.heart_rate > 12000
    \/ row.oxygen_saturation < 8500

\* C1: every processed Reading that is labelled normal with heart_rate <= 120
\* and oxygen_saturation >= 85 is recorded as no-alert (decision_flag false,
\* alert_message exactly "No alert needed"), and neither check_camera_flags
\* nor send_sms is ever called for it.
C1_NormalReadingNoAlert ==
    \A i \in RowIds :
        NormalReading(data[i]) =>
            /\ camCalls[i] = 0
            /\ smsCalls[i] = 0
            /\ \A k \in DecisionsOf(i) :
                /\ ~decisions[k].decision_flag
                /\ decisions[k].alert_message = "No alert needed"
            /\ Processed(i) =>
                /\ alert_message[i] = "No alert needed"
                /\ DecisionsOf(i) # {}

\* a row exactly on both thresholds has been recorded as no-alert
C1_Witness ==
    \E i \in RowIds :
        /\ data[i].heart_rate = 12000
        /\ data[i].oxygen_saturation = 8500
        /\ Processed(i)
        /\ alert_message[i] = "No alert needed"

\* C2: every processed Reading that is anomalous or has heart_rate > 120 or
\* oxygen_saturation < 85 has risk_flag true and exactly one call of
\* check_camera_flags; over the run the sampler is called at most once per
\* Reading and only for Readings whose risk_flag is true.
C2_AtRiskSampledOnce ==
    \A i \in RowIds :
        /\ camCalls[i] <= 1
        /\ camCalls[i] = 1 => AtRiskReading(data[i]) /\ (i = idx => risk_flag)
        /\ \A k \in DecisionsOf(i) : decisions[k].risk_flag = AtRiskReading(data[i])
        /\ AtRiskReading(data[i]) =>
            /\ (i = idx /\ pc # "TimedOut") => risk_flag
            /\ Processed(i) => camCalls[i] = 1

\* a row over the heart-rate threshold alone and a row under the oxygen
\* threshold alone have both been sampled
C2_Witness ==
    /\ Len(data) = 2
    /\ data[1].heart_rate > 12000 /\ data[1].risk_label = 1
    /\ data[2].oxygen_saturation < 8500 /\ data[2].risk_label = 1
    /\ camCalls[1] = 1
    /\ camCalls[2] = 1

\* C3: the decision does not depend on what the camera returned: every
\* recorded Decision has decision_flag = risk_flag, and its alert_message is
\* a function of the Reading alone, so runs over the same stream that differ
\* only in the camera's pairs record the same flags and messages.
C3_DecisionIgnoresCamera ==
    /\ \A k \in 1..Len(decisions) :
        LET dec == decisions[k]
            row == data[dec.reading_ref]
        IN  /\ dec.decision_flag = dec.risk_flag
            /\ dec.decision_flag = AtRiskReading(row)
            /\ dec.alert_message =
                   IF AtRiskReading(row) THEN generate_alert_message(row)
                   ELSE "No alert needed"
    /\ pc = "send_sms" => decision_flag = risk_flag

\* the same at-risk row twice, sampled with different camera pairs (one of
\* them motion without a face, one not), decided alike
C3_Witness ==
    /\ Len(decisions) = 2
    /\ data[1] = data[2]
    /\ decisions[1].camera_sample = Sample(TRUE, FALSE)
    /\ decisions[2].camera_sample = Sample(TRUE, TRUE)
    /\ decisions[1].decision_flag
    /\ decisions[1].alert_message = decisions[2].alert_message

\* C4: every Decision in the log has, when decision_flag is true, the
\* non-empty payload composed from its Reading as alert_message, and when
\* decision_flag is false exactly "No alert needed"; none has an empty
\* alert_message, and the column holds what the log holds.
C4_MessageMatchesFlag ==
    \A k \in 1..Len(decisions) :
        LET dec == decisions[k]
            row == data[dec.reading_ref]
        IN  /\ dec.decision_flag =>
                /\ dec.alert_message = generate_alert_message(row)
                /\ dec.alert_message # "No alert needed"
                /\ row = Row(7771, 9999, 11750, -1, -79) =>
                       dec.alert_message =
                           "Emergency Alert! Measurements:\n"
                           \o "- Heart Rate: 77.7 bpm\n"
                           \o "- O2 Saturation: 100.0%\n"
                           \o "- Glucose: 117.5 mg/dL\n"
                           \o "Risk Score: -0.008\n"
                           \o "Please check immediately!"
            /\ ~dec.decision_flag => dec.alert_message = "No alert needed"
            /\ dec.alert_message # ""
            /\ alert_message[dec.reading_ref] = dec.alert_message

\* the log holds an alert and a no-alert Decision
C4_Witness ==
    /\ Len(decisions) = 2
    /\ decisions[1].decision_flag
    /\ decisions[1].alert_message = generate_alert_message(Row(7771, 9999, 11750, -1, -79))
    /\ ~decisions[2].decision_flag

\* C5: Readings are processed strictly in stream order, one Decision each
\* before the loop advances: the log never holds more Decisions than
\* Readings consumed, the k-th Decision is the k-th Reading's, every Reading
\* the loop has advanced past has its Decision, and a row is without one
\* only while it is being processed, when its deadline check failed, or
\* when an exception ended the run in it.
C5_SequentialOneDecisionEach ==
    /\ Len(decisions) <= idx
    /\ \A k \in 1..Len(decisions) : decisions[k].reading_ref = k
    /\ \A i \in RowIds : i < idx => DecisionsOf(i) = {i}
    /\ \A i \in RowIds : i > idx => alert_message[i] = ""
    /\ pc \in {"loop", "Completed"} => Len(decisions) = idx

\* two rows decided in order, the first not at risk
C5_Witness ==
    /\ Len(data) = 2
    /\ idx = 2
    /\ pc = "Completed"
    /\ Len(decisions) = 2
    /\ ~decisions[1].risk_flag
    /\ decisions[2].risk_flag

\* C6: once a deadline check has found the budget exceeded the loop is in
\* TimedOut and does nothing more: the Reading under check and every later
\* one have no Decision, their alert_message is still the initial '' (not
\* "No alert needed"), and no camera sample or notification was or will be
\* made for them.
C6_TimedOutStops ==
    pc = "TimedOut" =>
        /\ Elapsed(now) > max_duration
        /\ \A i \in RowIds :
            i >= idx =>
                /\ alert_message[i] = ""
                /\ DecisionsOf(i) = {}
                /\ camCalls[i] = 0
                /\ smsCalls[i] = 0
        /\ cap # "open"
        /\ ~ENABLED Next

\* the loop timed out on the second row after alerting for the first, with
\* the default budget
C6_Witness ==
    /\ pc = "TimedOut"
    /\ max_duration = DefaultMaxDuration
    /\ Len(data) = 2
    /\ idx = 2
    /\ Len(decisions) = 1
    /\ decisions[1].decision_flag

\* C7 as stated: with max_duration = 0 and a non-empty stream the loop goes
\* straight to TimedOut, whatever the first deadline check reads: no
\* Decision is ever recorded, no camera sample taken, and the run ends
\* neither Completed nor by an exception.
C7_ZeroBudgetNeverProcesses ==
    (max_duration = 0 /\ Len(data) > 0) =>
        /\ decisions = <<>>
        /\ \A i \in RowIds : camCalls[i] = 0
        /\ pc \notin {"Completed", "Aborted"}

\* C7 amended: with max_duration = 0 a deadline check that reads an elapsed
\* time above 0 ends the loop in TimedOut without a Decision for the row
\* under check (none at all when it is the first row); a check that reads
\* exactly 0 passes, as 0 > 0 is false, and the row is processed.
C7_ZeroBudgetStrictCheck ==
    [][ (max_duration = 0 /\ pc = "loop" /\ idx' = idx + 1) =>
            IF Elapsed(now') > 0
            THEN /\ pc' = "TimedOut"
                 /\ decisions' = decisions
                 /\ idx = 0 => decisions' = <<>>
            ELSE pc' = "evaluated" ]_vars

\* zero budget, first check read more than 0: TimedOut, nothing decided
C7_Witness ==
    /\ max_duration = 0
    /\ Len(data) > 0
    /\ pc = "TimedOut"
    /\ idx = 1
    /\ Elapsed(now) > 0
    /\ decisions = <<>>

\* C8 as stated: when the loop stops, the time since start_time is at most
\* max_duration plus one camera window.
C8_OverrunAtMostOneWindow ==
    pc \in {"TimedOut", "Completed"} => Elapsed(now) <= max_duration + CameraDuration

\* C8 amended: the deadline is checked only at the top of an iteration,
\* never during a camera sample or a notifier call, and every row that is
\* processed passed its check within max_duration; how far the stop lies
\* beyond max_duration is the length of the last iteration, not one window.
C8_DeadlineCheckedBetweenReadings ==
    /\ [](pc = "evaluated" => Elapsed(now) <= max_duration)
    /\ [][pc' = "TimedOut" => pc \in {"loop", "TimedOut"}]_vars
    /\ [][(pc \in {"cam_first_read", "cam_window", "send_sms"})
            => (pc' # "TimedOut" /\ idx' = idx)]_vars

\* the loop stopped on the deadline more than one window beyond the budget,
\* after a row whose check it had passed
C8_Witness ==
    /\ pc = "TimedOut"
    /\ Len(decisions) >= 1
    /\ decisions[Len(decisions)].decision_flag
    /\ Elapsed(now) > max_duration + CameraDuration

\* C9 as stated: when the device cannot be opened or the first frame cannot
\* be read, the run is not ended by it: a Decision is still produced for
\* that row.
C9_CameraFailureRecovered ==
    raised = "cv2.error in first read" =>
        /\ pc # "Aborted"
        /\ DecisionsOf(idx) # {}

\* C10 as stated: whenever control is outside check_camera_flags the device
\* handle is not held.
C10_HandleReleasedOutsideSampler ==
    pc \notin {"cam_first_read", "cam_window"} => cap # "open"

\* C11 as stated: an exception raised while one Reading is processed (in
\* the camera sample or in the notifier call) is caught at the loop
\* boundary: it never ends the run, so the loop is never stopped by it with
\* Readings left that were not fetched.
C11_ExceptionIsolatedPerReading ==
    raised # "none" => pc # "Aborted"

\* C12 as stated: once send_sms has been called for a row and the call is
\* over, whether delivery succeeded or failed, the row's Decision is in the
\* log with decision_flag true and the composed message, the call was made
\* once, and the run has not been ended by it.
C12_NotifierFailureDoesNotAbort ==
    \A i \in RowIds :
        smsCalls[i] > 0 =>
            /\ smsCalls[i] = 1
            /\ raised # "OSError in send_telegram"
            /\ \E k \in DecisionsOf(i) :
                /\ decisions[k].decision_flag
                /\ decisions[k].alert_message = generate_alert_message(data[i])
            /\ alert_message[i] = generate_alert_message(data[i])

\* what the frames examined so far in the window amount to, in the words of
\* the claim: some frame's mean difference exceeded the threshold, some
\* frame had a detector reporting at least one region
AnyMotion == window.max_diff > diff_threshold
AnyFace == window.max_regions >= 1

\* C13: within one sampling window motion_detected and face_detected are
\* sticky and independent: both are false when the window starts, each is
\* true exactly when some frame examined so far exceeded the motion
\* threshold (respectively had a detector reporting a region), neither goes
\* back to false while the window lasts, the pair returned is the
\* disjunction over the frames examined, and a window that examined no
\* frame returns (false, false).
C13_StickyIndependentFlags ==
    /\ [](pc = "cam_first_read" => (~motion_detected /\ ~face_detected))
    /\ [](pc = "cam_window" =>
            (motion_detected = AnyMotion /\ face_detected = AnyFace))
    /\ [][(pc = "cam_window" /\ pc' = "cam_window") =>
            ((motion_detected => motion_detected') /\ (face_detected => face_detected'))]_vars
    /\ [][(pc = "cam_window" /\ pc' \in {"send_sms", "loop"}) =>
            (/\ camera_sample' = Sample(AnyMotion, AnyFace)
             /\ ~window.sampled => camera_sample' = Sample(FALSE, FALSE))]_vars

\* two windows of one run have returned (true, false) and (false, true)
C13_Witness ==
    /\ Len(decisions) = 2
    /\ decisions[1].camera_sample = Sample(TRUE, FALSE)
    /\ decisions[2].camera_sample = Sample(FALSE, TRUE)
    /\ pc = "Completed"

\* C14: the notifier is called exactly once for each at-risk Reading the
\* loop has decided and never for a Reading that is not at risk, whatever
\* was sent for the Reading before it; camera sample, compose, notify and
\* record happen in this order: when the call is about to be made the sample
\* has been returned, the message is composed and nothing is recorded yet,
\* and a message other than "No alert needed" is in the column only after
\* the row's one notifier call.
C14_NotifyOncePerAtRiskReading ==
    \A i \in RowIds :
        /\ smsCalls[i] <= 1
        /\ ~AtRiskReading(data[i]) => smsCalls[i] = 0
        /\ smsCalls[i] = 1 => (AtRiskReading(data[i]) /\ camCalls[i] = 1 /\ i <= idx)
        /\ \A k \in DecisionsOf(i) :
              IF decisions[k].risk_flag
              THEN /\ smsCalls[i] = 1
                   /\ decisions[k].camera_sample.present
                   /\ decisions[k].alert_message = generate_alert_message(data[i])
              ELSE smsCalls[i] = 0
        /\ (pc = "send_sms" /\ i = idx) =>
              /\ smsCalls[i] = 0
              /\ camCalls[i] = 1
              /\ camera_sample.present
              /\ cap = "released"
              /\ msg = generate_alert_message(data[i])
              /\ alert_message[i] = InitialMessage
              /\ DecisionsOf(i) = {}
        /\ (pc \in {"cam_first_read", "cam_window"} /\ i = idx) =>
              (smsCalls[i] = 0 /\ alert_message[i] = InitialMessage)
        /\ alert_message[i] \notin {InitialMessage, NoAlertNeeded} => smsCalls[i] = 1

\* two consecutive at-risk Readings with the same vitals have both been
\* notified, with the same message
C14_Witness ==
    /\ Len(data) = 2
    /\ data[1] = data[2]
    /\ smsCalls = <<1, 1>>
    /\ alert_message[1] = alert_message[2]
    /\ alert_message[2] = generate_alert_message(data[2])

\* C15: for a finite stream, if no camera sampling call and no notifier call
\* fails to return (none raises, none hangs), the loop eventually stops in
\* Completed or in TimedOut; it is in Completed only when every Reading of
\* the stream has a recorded Decision; and once it has stopped the state it
\* stopped in, the decision log and the recorded messages never change.
C15_StopsCompletedOrTimedOut ==
    /\ ([](pc # "Aborted") => <>(pc \in {"Completed", "TimedOut"}))
    /\ [](pc = "Completed" =>
            \A i \in RowIds : DecisionsOf(i) # {} /\ alert_message[i] # InitialMessage)
    /\ [][(pc \in {"Completed", "TimedOut"}) =>
            (pc' = pc /\ decisions' = decisions /\ alert_message' = alert_message)]_vars

\* a two-row stream whose first row was sampled and notified has been
\* consumed to its end
C15_Witness ==
    /\ pc = "Completed"
    /\ Len(data) = 2
    /\ Len(decisions) = 2
    /\ smsCalls[1] = 1
    /\ raised = "none"

====
